---------------------------- MODULE Spec2Model ----------------------------
(***************************************************************************)
(* Model of monstermaker_core's Type effectiveness graph (src/src/type.rs). *)
(*                                                                         *)
(* A Type owns a RefCell<HashMap<HashableWeak<Type>, f32>>.  Types live in  *)
(* Rc boxes; the owner of the program holds Rc handles, a Type's map holds  *)
(* only Weak keys.  The model keeps the Rc boxes (strong and weak counts,   *)
(* the value, the RefCell borrow flag) in a heap of MaxAddr addresses, and  *)
(* the owner's Rc variables in a table of MaxHandles handles.               *)
(*                                                                         *)
(* f32 multipliers are written in tenths: 10 is 1.0, -5 is -0.5.  They are  *)
(* only stored, copied and returned, never computed with.                   *)
(***************************************************************************)
EXTENDS Integers, FiniteSets, TLC

\* Bounds of the model: heap addresses, Rc variables of the owner, calls in a
\* run, and calls in a run of the two copies.
MaxAddr == 3
MaxHandles == 2
MaxSteps == 6
MaxTwinSteps == 5

Addr == 1..MaxAddr
Handle == 1..MaxHandles
Names == {"foo", "bar"}
\* The multipliers callers pass: a negative one and zero (the range is not
\* validated), both different from the default.
Mults == {-5, 0}

\* The literal of `.unwrap_or(&1.0)`, in tenths.
DefaultEffectiveness == 10

VARIABLES
    sys,       \* the program: [ptr, heap, brk, panicked]; ptr maps the owner's Rc
               \* variables in use to addresses, heap maps addresses to Rc boxes,
               \* brk is the highest address the allocator has handed out
    twin,      \* a second copy of the program, driven by the same calls
    forked,    \* whether the twin has made its one additional call
    written,   \* history: written[a][b] is {} or {m}, the last multiplier set for (a, b)
    last,      \* history: the last operation and its arguments
    ret,       \* the value the last effectiveness_of_type returned, {} or {v}
    twinRet,   \* the same, for the twin
    steps      \* operations performed so far

vars == <<sys, twin, forked, written, last, ret, twinRet, steps>>

\* HashMap::new()
EmptyMap == [k \in {} |-> 0]

\* An address of the heap that holds no Rc box.
FreeBox ==
    [allocated |-> FALSE, strong |-> 0, weak |-> 0,
     name |-> "", effectivenesses |-> EmptyMap, borrow |-> 0]

\* Type::new(name): the value; the RefCell starts unborrowed.
Type_new(name) ==
    [name |-> name, effectivenesses |-> EmptyMap, borrow |-> 0]

\* Rc::new(Type::new(name)) placed at address a: one strong, no weak.
RcNew(s, h, name, a) ==
    LET v == Type_new(name) IN
    [s EXCEPT !.ptr = [x \in DOMAIN s.ptr \cup {h} |-> IF x = h THEN a ELSE s.ptr[x]],
              !.brk = IF a > @ THEN a ELSE @,
              !.heap[a] = [allocated |-> TRUE, strong |-> 1, weak |-> 0,
                           name |-> v.name,
                           effectivenesses |-> v.effectivenesses,
                           borrow |-> v.borrow]]

\* Rc::clone: another owner variable for the same box, one more strong count.
RcClone(s, h, h2) ==
    LET a == s.ptr[h] IN
    [s EXCEPT !.ptr = [x \in DOMAIN s.ptr \cup {h2} |-> IF x = h2 THEN a ELSE s.ptr[x]],
              !.heap[a].strong = @ + 1]

\* Rc::downgrade / Weak::clone: one more weak count on the box.
WeakNew(s, k) == [s EXCEPT !.heap[k].weak = @ + 1]

\* Weak::drop: one weak count less; the box of an already dropped value is
\* deallocated with its last Weak.
WeakDrop(s, k) ==
    LET b == [s.heap[k] EXCEPT !.weak = @ - 1] IN
    [s EXCEPT !.heap[k] = IF b.strong = 0 /\ b.weak = 0 THEN FreeBox ELSE b]

RECURSIVE WeakDropAll(_, _)
\* Dropping the HashMap drops each of its HashableWeak keys.
WeakDropAll(s, K) ==
    IF K = {} THEN s
    ELSE LET k == CHOOSE x \in K : TRUE IN WeakDropAll(WeakDrop(s, k), K \ {k})

\* A wrong drop: the box is deallocated with the last Rc although Weak keys
\* still point to it (keys that are raw pointers rather than Weak).
RcDrop_IgnoreWeak(s, h) ==
    LET a  == s.ptr[h]
        s1 == [s EXCEPT !.ptr = [x \in DOMAIN s.ptr \ {h} |-> s.ptr[x]],
                        !.heap[a].strong = @ - 1]
    IN  IF s1.heap[a].strong > 0 THEN s1
        ELSE LET K  == DOMAIN s1.heap[a].effectivenesses
                 s2 == [s1 EXCEPT !.heap[a].name = "",
                                  !.heap[a].effectivenesses = EmptyMap]
                 s3 == WeakDropAll(s2, K)
             IN  [s3 EXCEPT !.heap[a] = FreeBox]

\* Dropping an Rc<Type>: one strong count less; with the last one the Type is
\* dropped (its name, its map and the map's Weak keys), and the box is
\* deallocated unless a Weak still points to it.
RcDrop(s, h) ==
    LET a  == s.ptr[h]
        s1 == [s EXCEPT !.ptr = [x \in DOMAIN s.ptr \ {h} |-> s.ptr[x]],
                        !.heap[a].strong = @ - 1]
    IN  IF s1.heap[a].strong > 0 THEN s1
        ELSE LET K  == DOMAIN s1.heap[a].effectivenesses
                 s2 == [s1 EXCEPT !.heap[a].name = "",
                                  !.heap[a].effectivenesses = EmptyMap]
                 s3 == WeakDropAll(s2, K)
             IN  IF s3.heap[a].weak = 0 THEN [s3 EXCEPT !.heap[a] = FreeBox] ELSE s3

\* A wrong insert: the map is rebuilt with the one entry.
MapInsert_Reset(map, k, v) == [x \in {k} |-> v]

\* A wrong insert: an entry that exists is kept (entry().or_insert()).
MapInsert_KeepFirst(map, k, v) ==
    [x \in DOMAIN map \cup {k} |-> IF x \in DOMAIN map THEN map[x] ELSE v]

\* HashMap::insert: the value of an equal key is replaced (the map keeps the key
\* it had), a new key is added.  Two HashableWeak keys of live Types are equal
\* exactly when they point to the same box; a Weak keeps its box allocated, so
\* the address of a key is never the address of another Type.
MapInsert(map, k, v) ==
    [x \in DOMAIN map \cup {k} |-> IF x = k THEN v ELSE map[x]]

\* HashMap::get: Some(v) as {v}, None as {}.
MapGet(map, k) == IF k \in DOMAIN map THEN {map[k]} ELSE {}

\* Option::unwrap_or
UnwrapOr(opt, d) == IF opt = {} THEN d ELSE CHOOSE v \in opt : TRUE

\* A wrong add: the relation is recorded in both directions.
add_effectiveness_Symmetric(s, self, other, effectiveness) ==
    LET s1 == WeakNew(s, other)
        h1 == other \in DOMAIN s1.heap[self].effectivenesses
        s2 == [s1 EXCEPT !.heap[self].effectivenesses =
                             MapInsert(@, other, effectiveness)]
        s3 == IF h1 THEN WeakDrop(s2, other) ELSE s2
        s4 == WeakNew(s3, self)
        h2 == self \in DOMAIN s4.heap[other].effectivenesses
        s5 == [s4 EXCEPT !.heap[other].effectivenesses =
                             MapInsert(@, self, effectiveness)]
    IN  IF h2 THEN WeakDrop(s5, self) ELSE s5

\* A wrong add: other's cell is borrowed while self's is mutably borrowed, which
\* panics when other is self.
add_effectiveness_BorrowsOther(s, self, other, effectiveness) ==
    IF s.heap[self].borrow # 0 \/ self = other THEN [s EXCEPT !.panicked = TRUE]
    ELSE LET s2  == WeakNew(s, other)
             had == other \in DOMAIN s2.heap[self].effectivenesses
             s3  == [s2 EXCEPT !.heap[self].effectivenesses =
                                   MapInsert(@, other, effectiveness)]
         IN  IF had THEN WeakDrop(s3, other) ELSE s3

\* A wrong add: the key is an Rc (a strong count) rather than a Weak.
add_effectiveness_Strong(s, self, other, effectiveness) ==
    IF s.heap[self].borrow # 0 THEN [s EXCEPT !.panicked = TRUE]
    ELSE LET had == other \in DOMAIN s.heap[self].effectivenesses
             s3  == [s EXCEPT !.heap[self].effectivenesses =
                                  MapInsert(@, other, effectiveness)]
         IN  IF had THEN s3 ELSE [s3 EXCEPT !.heap[other].strong = @ + 1]

\* Type::add_effectiveness(&self, other, effectiveness), self and other as the
\* addresses the references point to.  borrow_mut() panics when the cell is
\* borrowed; the RefMut lives to the end of the statement.
add_effectiveness(s, self, other, effectiveness) ==
    IF s.heap[self].borrow # 0 THEN [s EXCEPT !.panicked = TRUE]
    ELSE LET s1  == [s EXCEPT !.heap[self].borrow = -1]
             s2  == WeakNew(s1, other)
             had == other \in DOMAIN s2.heap[self].effectivenesses
             s3  == [s2 EXCEPT !.heap[self].effectivenesses =
                                   MapInsert(@, other, effectiveness)]
             s4  == IF had THEN WeakDrop(s3, other) ELSE s3
         IN  [s4 EXCEPT !.heap[self].borrow = 0]

\* A wrong lookup: an unset pair falls back to the reverse pair.
effectiveness_of_type_Symmetric(s, self, other) ==
    LET fwd == MapGet(s.heap[self].effectivenesses, other)
        bwd == MapGet(s.heap[other].effectivenesses, self)
    IN  [state |-> s,
         ret |-> {UnwrapOr(IF fwd # {} THEN fwd ELSE bwd, DefaultEffectiveness)}]

\* A wrong lookup: keys are compared by the name of the Type they point to.
effectiveness_of_type_ByName(s, self, other) ==
    LET map == s.heap[self].effectivenesses
        hit == {k \in DOMAIN map : s.heap[k].name = s.heap[other].name}
    IN  [state |-> s,
         ret |-> {IF hit = {} THEN DefaultEffectiveness
                  ELSE map[CHOOSE k \in hit : TRUE]}]

\* A wrong lookup: the Ref is leaked, the cell stays borrowed.
effectiveness_of_type_Leak(s, self, other) ==
    IF s.heap[self].borrow < 0
    THEN [state |-> [s EXCEPT !.panicked = TRUE], ret |-> {}]
    ELSE [state |-> [s EXCEPT !.heap[self].borrow = @ + 1],
          ret |-> {UnwrapOr(MapGet(s.heap[self].effectivenesses, other),
                            DefaultEffectiveness)}]

\* A wrong lookup: the default is 0.0.
effectiveness_of_type_DefaultZero(s, self, other) ==
    [state |-> s,
     ret |-> {UnwrapOr(MapGet(s.heap[self].effectivenesses, other), 0)}]

\* Type::effectiveness_of_type(&self, other): the state after the call and the
\* value returned.  borrow() panics when the cell is mutably borrowed; the Ref
\* and the temporary key are dropped at the end of the statement.
effectiveness_of_type(s, self, other) ==
    IF s.heap[self].borrow < 0
    THEN [state |-> [s EXCEPT !.panicked = TRUE], ret |-> {}]
    ELSE LET s1 == [s EXCEPT !.heap[self].borrow = @ + 1]
             s2 == WeakNew(s1, other)
             v  == UnwrapOr(MapGet(s2.heap[self].effectivenesses, other),
                            DefaultEffectiveness)
             s3 == WeakDrop(s2, other)
         IN  [state |-> [s3 EXCEPT !.heap[self].borrow = @ - 1], ret |-> {v}]

\* Assigning the public field `name` through Rc::get_mut.
SetName(s, a, name) == [s EXCEPT !.heap[a].name = name]

\* What h1.effectiveness_of_type(&h2) returns in state s: {v}, or {} on a panic.
Returned(s, h1, h2) == effectiveness_of_type(s, s.ptr[h1], s.ptr[h2]).ret

-----------------------------------------------------------------------------
\* The program after construction: no Type exists.
InitSys ==
    [ptr |-> [h \in {} |-> 0], heap |-> [a \in Addr |-> FreeBox], brk |-> 0,
     panicked |-> FALSE]

\* The record of a call: the operation, the handles and the multiplier of an add
\* or a lookup, and what the call found: prev, the multiplier (a, b) had before an add; addr and
\* keys, the address of a Type dropped with its last Rc and the keys its map held.
NoCall == [op |-> "init", h1 |-> {}, h2 |-> {}, m |-> {}, prev |-> {},
           addr |-> {}, keys |-> {}]

Init ==
    /\ sys = InitSys
    /\ twin = InitSys
    /\ forked = FALSE
    /\ written = [a \in Addr |-> [b \in Addr |-> {}]]
    /\ last = NoCall
    /\ ret = {}
    /\ twinRet = {}
    /\ steps = 0

Running == steps < MaxSteps /\ ~sys.panicked

Live(s) == DOMAIN s.ptr
\* What the allocator may return: any deallocated address, or the next address
\* never handed out (addresses never handed out are interchangeable).
FreeAddrs(s) == {a \in Addr : ~s.heap[a].allocated /\ a <= s.brk + 1}
\* The owner's next variable: variables are names, the lowest unused one is taken.
FreshHandle(s, h) == h \notin Live(s) /\ \A g \in Handle : g < h => g \in Live(s)
\* The addresses the owner holds an Rc to.
Owned(s) == {s.ptr[h] : h \in DOMAIN s.ptr}

\* let h = Rc::new(Type::new(name)); the allocator may return any free address.
DoNew(h, name, a) ==
    /\ Running
    /\ FreshHandle(sys, h)
    /\ a \in FreeAddrs(sys)
    /\ sys' = RcNew(sys, h, name, a)
    /\ written' = [x \in Addr |-> [y \in Addr |->
                       IF x = a \/ y = a THEN {} ELSE written[x][y]]]
    /\ last' = [NoCall EXCEPT !.op = "new"]
    /\ ret' = {}
    /\ steps' = steps + 1

\* let h2 = Rc::clone(&h);
DoClone(h, h2) ==
    /\ Running
    /\ h \in Live(sys)
    /\ FreshHandle(sys, h2)
    /\ sys' = RcClone(sys, h, h2)
    /\ last' = [NoCall EXCEPT !.op = "clone"]
    /\ ret' = {}
    /\ steps' = steps + 1
    /\ UNCHANGED written

\* drop(h); the Type is gone once the owner holds no other Rc to it.
DoDrop(h) ==
    /\ Running
    /\ h \in Live(sys)
    /\ sys' = RcDrop(sys, h)
    /\ LET a == sys.ptr[h] IN
       IF \E g \in Live(sys) \ {h} : sys.ptr[g] = a
       THEN /\ written' = written
            /\ last' = [NoCall EXCEPT !.op = "drop"]
       ELSE /\ written' = [x \in Addr |-> [y \in Addr |->
                               IF x = a \/ y = a THEN {} ELSE written[x][y]]]
            /\ last' = [NoCall EXCEPT !.op = "drop", !.addr = {a},
                            !.keys = DOMAIN sys.heap[a].effectivenesses]
    /\ ret' = {}
    /\ steps' = steps + 1

\* h1.add_effectiveness(&h2, m);
DoAdd(h1, h2, m) ==
    /\ Running
    /\ h1 \in Live(sys) /\ h2 \in Live(sys)
    /\ sys' = add_effectiveness(sys, sys.ptr[h1], sys.ptr[h2], m)
    /\ written' = [written EXCEPT ![sys.ptr[h1]][sys.ptr[h2]] = {m}]
    /\ last' = [NoCall EXCEPT !.op = "add", !.h1 = {h1}, !.h2 = {h2}, !.m = {m},
                            !.prev = written[sys.ptr[h1]][sys.ptr[h2]]]
    /\ ret' = {}
    /\ steps' = steps + 1

\* h1.effectiveness_of_type(&h2)
DoGet(h1, h2) ==
    /\ Running
    /\ h1 \in Live(sys) /\ h2 \in Live(sys)
    /\ LET r == effectiveness_of_type(sys, sys.ptr[h1], sys.ptr[h2]) IN
       /\ sys' = r.state
       /\ ret' = r.ret
    /\ last' = [NoCall EXCEPT !.op = "get", !.h1 = {h1}, !.h2 = {h2}]
    /\ steps' = steps + 1
    /\ UNCHANGED written

\* Rc::get_mut(&mut h).unwrap().name = name, to another name; get_mut needs the
\* only pointer.
DoRename(h, name) ==
    /\ Running
    /\ h \in Live(sys)
    /\ sys.heap[sys.ptr[h]].strong = 1 /\ sys.heap[sys.ptr[h]].weak = 0
    /\ sys.heap[sys.ptr[h]].name # name
    /\ sys' = SetName(sys, sys.ptr[h], name)
    /\ last' = [NoCall EXCEPT !.op = "rename"]
    /\ ret' = {}
    /\ steps' = steps + 1
    /\ UNCHANGED written

twinVars == <<twin, forked, twinRet>>

New == \E h \in Handle, name \in Names, a \in Addr : DoNew(h, name, a) /\ UNCHANGED twinVars
Clone == \E h \in Handle, h2 \in Handle : DoClone(h, h2) /\ UNCHANGED twinVars
Drop == \E h \in Handle : DoDrop(h) /\ UNCHANGED twinVars
Add == \E h1 \in Handle, h2 \in Handle, m \in Mults : DoAdd(h1, h2, m) /\ UNCHANGED twinVars
Get == \E h1 \in Handle, h2 \in Handle : DoGet(h1, h2) /\ UNCHANGED twinVars
Rename == \E h \in Handle, name \in Names : DoRename(h, name) /\ UNCHANGED twinVars

Next == New \/ Clone \/ Drop \/ Add \/ Get \/ Rename

Spec == Init /\ [][Next]_vars

-----------------------------------------------------------------------------
\* Two copies of the program driven by the same calls; each copy's allocator
\* makes its own choices.  The second copy makes one additional call,
\* add_effectiveness(h1, h2, 1.0), on a pair never set before; from then on
\* both copies go through the same add_effectiveness and effectiveness_of_type
\* calls.

TwinRunning == steps < MaxTwinSteps

TwinNew ==
    \E h \in Handle, name \in Names, a \in Addr, a2 \in Addr :
        /\ TwinRunning /\ ~forked
        /\ DoNew(h, name, a)
        /\ a2 \in FreeAddrs(twin)
        /\ twin' = RcNew(twin, h, name, a2)
        /\ twinRet' = {}
        /\ UNCHANGED forked

TwinClone ==
    \E h \in Handle, h2 \in Handle :
        /\ TwinRunning /\ ~forked
        /\ DoClone(h, h2)
        /\ twin' = RcClone(twin, h, h2)
        /\ twinRet' = {}
        /\ UNCHANGED forked

TwinDrop ==
    \E h \in Handle :
        /\ TwinRunning /\ ~forked
        /\ DoDrop(h)
        /\ twin' = RcDrop(twin, h)
        /\ twinRet' = {}
        /\ UNCHANGED forked

TwinAdd ==
    \E h1 \in Handle, h2 \in Handle, m \in Mults :
        /\ TwinRunning
        /\ DoAdd(h1, h2, m)
        /\ twin' = add_effectiveness(twin, twin.ptr[h1], twin.ptr[h2], m)
        /\ twinRet' = {}
        /\ UNCHANGED forked

TwinGet ==
    \E h1 \in Handle, h2 \in Handle :
        /\ TwinRunning
        /\ DoGet(h1, h2)
        /\ LET r == effectiveness_of_type(twin, twin.ptr[h1], twin.ptr[h2]) IN
           /\ twin' = r.state
           /\ twinRet' = r.ret
        /\ UNCHANGED forked

TwinRename ==
    \E h \in Handle, name \in Names :
        /\ TwinRunning /\ ~forked
        /\ DoRename(h, name)
        /\ twin.heap[twin.ptr[h]].strong = 1 /\ twin.heap[twin.ptr[h]].weak = 0
        /\ twin' = SetName(twin, twin.ptr[h], name)
        /\ twinRet' = {}
        /\ UNCHANGED forked

\* The additional call of the second copy.
TwinFork ==
    \E h1 \in Handle, h2 \in Handle :
        /\ TwinRunning /\ Running
        /\ ~forked
        /\ h1 \in Live(sys) /\ h2 \in Live(sys)
        /\ written[sys.ptr[h1]][sys.ptr[h2]] = {}
        /\ twin' = add_effectiveness(twin, twin.ptr[h1], twin.ptr[h2],
                                     10)
        /\ forked' = TRUE
        /\ last' = [NoCall EXCEPT !.op = "fork", !.h1 = {h1}, !.h2 = {h2}]
        /\ steps' = steps + 1
        /\ UNCHANGED <<sys, written, ret, twinRet>>

TwinNext ==
    TwinNew \/ TwinClone \/ TwinDrop \/ TwinAdd \/ TwinGet \/ TwinRename \/ TwinFork

TwinSpec == Init /\ [][TwinNext]_vars

-----------------------------------------------------------------------------
\* The properties.

The(S) == CHOOSE x \in S : TRUE
\* The addresses of the pair the last call named.
LastSelf == sys.ptr[The(last.h1)]
LastOther == sys.ptr[The(last.h2)]

\* C1: a pair that add_effectiveness set to m reads m, whatever calls on other
\* pairs came before or after it.
C1_SetThenGet ==
    \A h1 \in Live(sys), h2 \in Live(sys) :
        written[sys.ptr[h1]][sys.ptr[h2]] # {} =>
            Returned(sys, h1, h2) = written[sys.ptr[h1]][sys.ptr[h2]]

\* An add has just returned, its pair reads the multiplier passed, and another
\* pair set earlier to another multiplier still reads its own.
C1_Witness ==
    /\ last.op = "add"
    /\ Returned(sys, The(last.h1), The(last.h2)) = last.m
    /\ \E x \in Live(sys), y \in Live(sys) :
           /\ <<sys.ptr[x], sys.ptr[y]>> # <<LastSelf, LastOther>>
           /\ written[sys.ptr[x]][sys.ptr[y]] \notin {{}, last.m}
           /\ Returned(sys, x, y) = written[sys.ptr[x]][sys.ptr[y]]

\* C2: a pair of live Types that add_effectiveness was never called on reads
\* exactly 1.0, whatever was set on other pairs, the reverse pair included.
C2_DefaultWhenUnset ==
    \A h1 \in Live(sys), h2 \in Live(sys) :
        written[sys.ptr[h1]][sys.ptr[h2]] = {} =>
            Returned(sys, h1, h2) = {DefaultEffectiveness}

\* A lookup of an unset pair has returned while the reverse pair is set to
\* something else than 1.0.
C2_Witness ==
    /\ last.op = "get"
    /\ written[LastSelf][LastOther] = {}
    /\ written[LastOther][LastSelf] \notin {{}, {DefaultEffectiveness}}
    /\ ret = {DefaultEffectiveness}

\* C3: add_effectiveness(A, B, m) changes what no pair other than (A, B) reads,
\* (B, A) included, and effectiveness_of_type changes no Rc box (no stored
\* relation, no count).
C3_Frame ==
    [][ /\ last'.op = "add" =>
              \A x \in Live(sys), y \in Live(sys) :
                  <<sys.ptr[x], sys.ptr[y]>> #
                      <<sys.ptr[The(last'.h1)], sys.ptr[The(last'.h2)]>>
                  => Returned(sys', x, y) = Returned(sys, x, y)
        /\ last'.op = "get" => sys' = sys
      ]_vars

\* An add on (A, B), A # B, has returned while (B, A) holds another multiplier.
C3_Witness ==
    /\ last.op = "add"
    /\ LastSelf # LastOther
    /\ written[LastOther][LastSelf] \notin {{}, last.m}
    /\ Returned(sys, The(last.h2), The(last.h1)) = written[LastOther][LastSelf]

\* C4: an add on a pair that was set before makes the pair read the new
\* multiplier, does not panic, and leaves the number of entries of the
\* source's map as it was.
C4_LastWriteWins ==
    [][ (last'.op = "add" /\ last'.prev # {}) =>
            LET h1 == The(last'.h1)
                h2 == The(last'.h2)
                a  == sys.ptr[h1]
            IN  /\ ~sys'.panicked
                /\ Returned(sys', h1, h2) = last'.m
                /\ Cardinality(DOMAIN sys'.heap[a].effectivenesses)
                       = Cardinality(DOMAIN sys.heap[a].effectivenesses)
      ]_vars

\* An add has replaced a multiplier by a different one.
C4_Witness ==
    /\ last.op = "add"
    /\ last.prev \notin {{}, last.m}
    /\ Returned(sys, The(last.h1), The(last.h2)) = last.m

\* C5: an add of a Type on itself does not panic and makes the pair (A, A) read
\* the multiplier; a Type with a self-relation keeps reading it through every
\* later call, and an add on it does not panic and reads back what was passed.
C5_SelfRelation ==
    /\ (last.op = "add" /\ LastSelf = LastOther) =>
           /\ ~sys.panicked
           /\ Returned(sys, The(last.h1), The(last.h1)) = last.m
    /\ \A h \in Live(sys) :
           LET a == sys.ptr[h] IN
           written[a][a] # {} =>
               /\ Returned(sys, h, h) = written[a][a]
               /\ (last.op = "add" /\ LastSelf = a) =>
                      /\ ~sys.panicked
                      /\ Returned(sys, The(last.h1), The(last.h2)) = last.m

\* The only Type of the program has been set on itself to something else than
\* 1.0, and a lookup of it on itself has returned that.
C5_Witness ==
    /\ last.op = "get"
    /\ Cardinality(Owned(sys)) = 1
    /\ LastSelf = LastOther
    /\ written[LastSelf][LastSelf] \notin {{}, {DefaultEffectiveness}}
    /\ ret = written[LastSelf][LastSelf]

\* C6: with N1 and N2 two Types of the same name, add_effectiveness(A, N1, m)
\* changes nothing A reads for N2, add_effectiveness(N1, A, m) changes nothing
\* N2 reads, and assigning a name changes nothing any pair reads.
C6_IdentityNotName ==
    [][ /\ last'.op = "add" =>
              LET h1 == The(last'.h1)
                  a  == sys.ptr[h1]
                  b  == sys.ptr[The(last'.h2)]
              IN  \A n \in Live(sys) :
                      LET c == sys.ptr[n] IN
                      /\ (c # b /\ sys.heap[c].name = sys.heap[b].name) =>
                             Returned(sys', h1, n) = Returned(sys, h1, n)
                      /\ (c # a /\ sys.heap[c].name = sys.heap[a].name) =>
                             \A x \in Live(sys) :
                                 Returned(sys', n, x) = Returned(sys, n, x)
        /\ last'.op = "rename" =>
              \A x \in Live(sys), y \in Live(sys) :
                  Returned(sys', x, y) = Returned(sys, x, y)
      ]_vars

\* An add on (A, N1) has returned, and a Type N2 with N1's name reads something
\* else for A than N1 does.
C6_Witness ==
    /\ last.op = "add"
    /\ \E n \in Live(sys) :
           /\ sys.ptr[n] # LastOther
           /\ sys.heap[sys.ptr[n]].name = sys.heap[LastOther].name
           /\ Returned(sys, The(last.h1), n) # last.m
           /\ Returned(sys, The(last.h1), The(last.h2)) = last.m

\* C7: the strong count of a box is the number of Rc variables of the owner (no
\* relation adds to it), its weak count is the number of maps holding it as a
\* key, and a Type the owner holds no Rc to is dropped (its map released) and
\* its box deallocated unless the map of a Type still owned holds it as a key.
C7_NoLeak ==
    \A a \in Addr :
        /\ sys.heap[a].strong = Cardinality({h \in Live(sys) : sys.ptr[h] = a})
        /\ sys.heap[a].weak =
               Cardinality({x \in Addr : a \in DOMAIN sys.heap[x].effectivenesses})
        /\ a \notin Owned(sys) =>
               /\ sys.heap[a].effectivenesses = EmptyMap
               /\ sys.heap[a].allocated =>
                      \E x \in Owned(sys) : a \in DOMAIN sys.heap[x].effectivenesses

\* The last Rc of a Type whose map held the Type itself as a key has been
\* dropped, the owner holds nothing, and the heap is empty.
C7_Witness ==
    /\ last.op = "drop"
    /\ last.addr # {}
    /\ last.addr \subseteq last.keys
    /\ Owned(sys) = {}
    /\ \A a \in Addr : sys.heap[a] = FreeBox

\* C8: no call has panicked, no RefCell is left borrowed between calls, every
\* lookup on live handles returns a value, and the add that has just returned
\* made its pair read the multiplier passed, unchanged.
C8_NoPanic ==
    /\ ~sys.panicked
    /\ \A a \in Addr : sys.heap[a].borrow = 0
    /\ \A h1 \in Live(sys), h2 \in Live(sys) :
           /\ Returned(sys, h1, h2) # {}
           /\ ~effectiveness_of_type(sys, sys.ptr[h1], sys.ptr[h2]).state.panicked
    /\ last.op = "add" => Returned(sys, The(last.h1), The(last.h2)) = last.m
    /\ last.op = "get" => ret # {}

\* An add with a zero or negative multiplier has returned on a source whose map
\* holds a key of a dropped Type, and the pair reads that multiplier.
C8_Witness ==
    /\ last.op = "add"
    /\ last.m \subseteq {m \in Mults : m <= 0}
    /\ \E k \in DOMAIN sys.heap[LastSelf].effectivenesses : k \notin Owned(sys)
    /\ Returned(sys, The(last.h1), The(last.h2)) = last.m

\* C9: the copy that made the additional add_effectiveness(A, B, 1.0) and the
\* copy that did not return the same value from every effectiveness_of_type.
C9_NeutralIndistinguishable ==
    /\ ret = twinRet
    /\ \A h1 \in Live(sys), h2 \in Live(sys) :
           Returned(sys, h1, h2) = Returned(twin, h1, h2)

\* After the additional call, a lookup of its pair has returned: the first copy
\* holds no entry for the pair, the second holds the explicit 1.0.
C9_Witness ==
    /\ forked
    /\ last.op = "get"
    /\ LastOther \notin DOMAIN sys.heap[LastSelf].effectivenesses
    /\ twin.ptr[The(last.h2)] \in
           DOMAIN twin.heap[twin.ptr[The(last.h1)]].effectivenesses
    /\ ret = {DefaultEffectiveness}

\* C10: a key of an owned Type's map points to an allocated box, and to a Type
\* still owned only if the pair was set (a key left by a dropped Type matches
\* no Type created later); a Type no relation involves reads 1.0 for and from
\* every live Type.
C10_FreshNodeNeutral ==
    /\ \A a \in Owned(sys) :
           \A k \in DOMAIN sys.heap[a].effectivenesses :
               /\ sys.heap[k].allocated
               /\ k \in Owned(sys) => written[a][k] # {}
    /\ \A n \in Live(sys) :
           (\A x \in Addr : written[sys.ptr[n]][x] = {} /\ written[x][sys.ptr[n]] = {})
           => \A x \in Live(sys) :
                  /\ Returned(sys, n, x) = {DefaultEffectiveness}
                  /\ Returned(sys, x, n) = {DefaultEffectiveness}

\* A Type has just been created while the map of a live Type holds a key of a
\* dropped one.
C10_Witness ==
    /\ last.op = "new"
    /\ \E a \in Owned(sys) :
           \E k \in DOMAIN sys.heap[a].effectivenesses : k \notin Owned(sys)

=============================================================================
